---- MODULE Spec2Model ----
(***************************************************************************)
(* Ma-Poche (src/src/App.tsx): a personal ledger.  The App component       *)
(* holds an Entry collection (transactions) and a Budget Map (budgets);    *)
(* every other value is recomputed from them on each render.               *)
(*                                                                         *)
(* JavaScript values are modelled as follows.                              *)
(*   - a string is a TLA+ string; slice, trim and the code-unit order of   *)
(*     Array.prototype.sort are computed character by character;           *)
(*   - a number is a tagged record: Num(n) for a finite value (integers    *)
(*     stand for the exactly representable doubles; rounding is outside    *)
(*     the model), PosInf, NegInf and NaN;                                 *)
(*   - a JSON value held in an amount field may also be JNull or a string  *)
(*     JStr(s);                                                            *)
(*   - an object is a record; an absent (undefined) property is a field    *)
(*     that is not in the record's DOMAIN.                                 *)
(***************************************************************************)
EXTENDS Integers, Sequences, FiniteSets, TLC

VARIABLES
    transactions,   \* useState<Transaction[]>            (App.tsx:365)
    budgets,        \* useState<BudgetStore>              (App.tsx:429)
    date,           \* form field                         (App.tsx:380)
    type,           \* form field                         (App.tsx:381)
    category,       \* form field                         (App.tsx:382)
    amount,         \* form field, the text typed         (App.tsx:383)
    details,        \* form field                         (App.tsx:384)
    selectedMonth,  \* useState<string>                   (App.tsx:443)
    nextId,         \* number of ids drawn from randomUUID so far
    crashed,        \* "" while the tree is mounted, else the error a render threw
    localStorage,   \* the text under each of the two storage keys
    series,         \* the series prop of the chart being rendered
    chart           \* what the chart computed from it

vars == <<transactions, budgets, date, type, category, amount, details,
          selectedMonth, nextId, crashed, localStorage, series, chart>>

appVars == <<transactions, budgets, date, type, category, amount, details,
             selectedMonth, nextId, crashed, localStorage>>

chartVars == <<series, chart>>

-----------------------------------------------------------------------------
(* JavaScript numbers *)

Num(n) == [t |-> "num", v |-> n]

NaN == [t |-> "nan"]

PosInf == [t |-> "inf"]

NegInf == [t |-> "-inf"]

JNull == [t |-> "null"]

JStr(str) == [t |-> "str", s |-> str]

Zero == Num(0)

One == Num(1)

IsNumber(x) == x.t \in {"num", "nan", "inf", "-inf"}

\* Number.isFinite(x)
IsFinite(x) == x.t = "num"

\* unary minus
Neg(x) ==
    CASE x.t = "num"  -> Num(0 - x.v)
      [] x.t = "inf"  -> NegInf
      [] x.t = "-inf" -> PosInf
      [] OTHER        -> NaN

\* a + b on numbers
Plus(a, b) ==
    CASE a.t = "nan" \/ b.t = "nan"       -> NaN
      [] a.t = "num" /\ b.t = "num"       -> Num(a.v + b.v)
      [] a.t = "num"                      -> b
      [] b.t = "num"                      -> a
      [] a.t = b.t                        -> a
      [] OTHER                            -> NaN

\* a - b on numbers
Minus(a, b) == Plus(a, Neg(b))

\* a > b on numbers (FALSE as soon as one side is NaN)
Gt(a, b) ==
    CASE a.t = "nan" \/ b.t = "nan"       -> FALSE
      [] a.t = "num" /\ b.t = "num"       -> a.v > b.v
      [] a.t = "inf"                      -> b.t # "inf"
      [] a.t = "-inf"                     -> FALSE
      [] OTHER                            -> b.t = "-inf"

\* Math.abs(x)
Abs(x) ==
    CASE x.t = "num"  -> Num(IF x.v < 0 THEN 0 - x.v ELSE x.v)
      [] x.t = "nan"  -> NaN
      [] OTHER        -> PosInf

\* Math.max(a, b); Math.max of a list is the fold of this from its first element
Max2(a, b) ==
    CASE a.t = "nan" \/ b.t = "nan" -> NaN
      [] Gt(b, a)                   -> b
      [] OTHER                      -> a

\* x || 0 on a number: 0 and NaN are falsy
OrZero(x) == IF x.t = "nan" \/ (x.t = "num" /\ x.v = 0) THEN Zero ELSE x

-----------------------------------------------------------------------------
(* JavaScript strings *)

Min(a, b) == IF a < b THEN a ELSE b

\* s.slice(0, n)
Slice0(s, n) == SubSeq(s, 1, Min(n, Len(s)))

Digits == {"0", "1", "2", "3", "4", "5", "6", "7", "8", "9"}

DigitVal(c) ==
    CASE c = "0" -> 0 [] c = "1" -> 1 [] c = "2" -> 2 [] c = "3" -> 3
      [] c = "4" -> 4 [] c = "5" -> 5 [] c = "6" -> 6 [] c = "7" -> 7
      [] c = "8" -> 8 [] c = "9" -> 9

\* UTF-16 code unit of the characters that occur in dates and month keys
CharCode(c) == IF c = "-" THEN 45 ELSE 48 + DigitVal(c)

\* a < b in the code-unit order used by Array.prototype.sort() without comparator
RECURSIVE StrLess(_, _)
StrLess(a, b) ==
    IF Len(b) = 0 THEN FALSE
    ELSE IF Len(a) = 0 THEN TRUE
    ELSE IF Head(a) = Head(b) THEN StrLess(Tail(a), Tail(b))
    ELSE CharCode(Head(a)) < CharCode(Head(b))

RECURSIVE TrimLeft(_)
TrimLeft(s) ==
    IF Len(s) > 0 /\ Head(s) = " " THEN TrimLeft(Tail(s)) ELSE s

RECURSIVE TrimRight(_)
TrimRight(s) ==
    IF Len(s) > 0 /\ SubSeq(s, Len(s), Len(s)) = " "
    THEN TrimRight(SubSeq(s, 1, Len(s) - 1)) ELSE s

\* s.trim()
Trim(s) == TrimLeft(TrimRight(s))

\* value of a non-empty run of decimal digits, or -1 when another character occurs
RECURSIVE DigitsValue(_, _)
DigitsValue(s, acc) ==
    IF Len(s) = 0 THEN acc
    ELSE IF Head(s) \in Digits
         THEN DigitsValue(Tail(s), 10 * acc + DigitVal(Head(s)))
         ELSE 0 - 1

\* an unsigned StrDecimalLiteral (integers and Infinity)
Unsigned(s) ==
    IF s = "Infinity" THEN PosInf
    ELSE IF Len(s) = 0 THEN NaN
    ELSE IF DigitsValue(s, 0) < 0 THEN NaN
    ELSE Num(DigitsValue(s, 0))

\* Number(s) of a string: white space is trimmed, the empty string is 0,
\* an optional sign, then digits or Infinity; anything else is NaN
StringToNumber(s) ==
    LET u == Trim(s) IN
    IF Len(u) = 0 THEN Zero
    ELSE IF Head(u) = "-" THEN Neg(Unsigned(Tail(u)))
    ELSE IF Head(u) = "+" THEN Unsigned(Tail(u))
    ELSE Unsigned(u)

\* Number(x) of a value read from a property
ToNumber(x) ==
    CASE x.t = "null" -> Zero
      [] x.t = "str"  -> StringToNumber(x.s)
      [] OTHER        -> x

-----------------------------------------------------------------------------
(* Bounds and input sets of the model *)

\* ids drawn by addTransaction over a run
MaxIds == 2

\* entries of a snapshot found in storage when the page is opened
MaxStored == 3

\* keys of the Budget Map
MaxBudgetKeys == 2

\* the day the page is opened (new Date())
Today == "2026-01-05"

\* what the user enters in the date field ("" is the cleared field)
FormDates == {"", "2026-02-10"}

\* what the user types in the amount field
AmountTexts == {"", "abc", "3"}

\* what the user types in the details field
DetailsTexts == {"", " n "}

\* the kinds and categories the user picks in the form and edits in the Plan tab
FormTypes == {"Expenses", "Income"}

FormCategories == {"Rent", "Transport", "Salary"}

\* what the user picks or types in a month field
MonthTexts == {"2026-02", "2026"}

\* what the user types in a budget cell
BudgetTexts == {"4", "x"}

-----------------------------------------------------------------------------
(* Constants of the program *)

\* Object.keys(CATEGORIES)
TxTypes == <<"Income", "Expenses", "Savings", "Investments">>

CATEGORIES ==
    [Income      |-> <<"Salary", "Scholarship", "Family Support", "Side hustle">>,
     Expenses    |-> <<"Rent", "Transport", "Groceries", "Phone & Internet",
                       "Subscriptions", "School & Books", "Health", "Leisure">>,
     Savings     |-> <<"Emergency Fund", "Travel", "Other Savings">>,
     Investments |-> <<"Crypto", "Stocks", "Other Investment">>]

Range(f) == {f[i] : i \in DOMAIN f}

\* array.map(f)
Map(s, f(_)) == [i \in 1..Len(s) |-> f(s[i])]

\* numbers.reduce((acc, x) => acc + x, acc)
RECURSIVE Reduce(_, _)
Reduce(s, acc) ==
    IF s = <<>> THEN acc ELSE Reduce(Tail(s), Plus(acc, Head(s)))

monthKeyFromDate(dateStr) == Slice0(dateStr, 7)

\* Number(t.amount) || 0 ; Number(undefined) is NaN
AmountTerm(t) ==
    OrZero(IF "amount" \in DOMAIN t THEN ToNumber(t.amount) ELSE NaN)

\* t.type === type ; an absent property is undefined and equals no string
HasValue(t, f, val) == f \in DOMAIN t /\ t[f] = val

sumByType(txs, k) ==
    Reduce(Map(SelectSeq(txs, LAMBDA t : HasValue(t, "type", k)), AmountTerm), Zero)

sumForMonthTypeCategory(txs, monthKey, k, cat) ==
    Reduce(Map(SelectSeq(txs, LAMBDA t : /\ monthKeyFromDate(t.date) = monthKey
                                         /\ HasValue(t, "type", k)
                                         /\ HasValue(t, "category", cat)),
               AmountTerm),
           Zero)

-----------------------------------------------------------------------------
(* Values derived on every render *)

\* new Set(): values in the order of their first insertion
RECURSIVE SetInsertAll(_, _)
SetInsertAll(s, acc) ==
    IF s = <<>> THEN acc
    ELSE SetInsertAll(Tail(s),
                      IF Head(s) \in Range(acc) THEN acc ELSE Append(acc, Head(s)))

\* insertion of x in a list sorted by code units, after its equals
RECURSIVE SortedInsert(_, _)
SortedInsert(s, x) ==
    IF s = <<>> THEN <<x>>
    ELSE IF StrLess(x, Head(s)) THEN <<x>> \o s
    ELSE <<Head(s)>> \o SortedInsert(Tail(s), x)

\* mutant of SortStrings: the list is left in insertion order
SortStringsOmitted(s) == s

\* array.sort() of strings
RECURSIVE SortStrings(_)
SortStrings(s) ==
    IF s = <<>> THEN <<>>
    ELSE SortedInsert(SortStrings(SubSeq(s, 1, Len(s) - 1)), s[Len(s)])

\* the allMonthsInTx memo over a value of the transactions state
AllMonths(txs) ==
    SortStrings(SetInsertAll(Map(txs, LAMBDA t : monthKeyFromDate(t.date)), <<>>))

allMonthsInTx == AllMonths(transactions)

BudgetKey(monthKey, t, cat) == monthKey \o "|" \o t \o "|" \o cat

getBudget(monthKey, t, cat) ==
    IF BudgetKey(monthKey, t, cat) \in DOMAIN budgets
    THEN budgets[BudgetKey(monthKey, t, cat)]
    ELSE Zero

monthBudgetTotal(monthKey, t) ==
    Reduce(Map(CATEGORIES[t], LAMBDA cat : getBudget(monthKey, t, cat)), Zero)

\* mutant of monthTrackedTotal: every entry of the month and kind is counted
monthTrackedTotalOfAnyCategory(monthKey, t) ==
    Reduce(Map(SelectSeq(transactions,
                         LAMBDA x : /\ monthKeyFromDate(x.date) = monthKey
                                    /\ HasValue(x, "type", t)),
               AmountTerm),
           Zero)

monthTrackedTotal(monthKey, t) ==
    Reduce(Map(CATEGORIES[t],
               LAMBDA cat : sumForMonthTypeCategory(transactions, monthKey, t, cat)),
           Zero)

MonthRow(m, income, expenses, savings, investments, net) ==
    [month |-> m, income |-> income, expenses |-> expenses, savings |-> savings,
     investments |-> investments, net |-> net]

\* mutant of monthTotals: net adds the expenses to the income
monthTotalsNetAdds ==
    Map(allMonthsInTx,
        LAMBDA m :
            LET income      == monthTrackedTotal(m, "Income")
                expenses    == monthTrackedTotal(m, "Expenses")
                savings     == monthTrackedTotal(m, "Savings")
                investments == monthTrackedTotal(m, "Investments")
            IN  MonthRow(m, income, expenses, savings, investments,
                         Minus(Minus(Plus(income, expenses), savings), investments)))

monthTotals ==
    Map(allMonthsInTx,
        LAMBDA m :
            LET income      == monthTrackedTotal(m, "Income")
                expenses    == monthTrackedTotal(m, "Expenses")
                savings     == monthTrackedTotal(m, "Savings")
                investments == monthTrackedTotal(m, "Investments")
            IN  MonthRow(m, income, expenses, savings, investments,
                         Minus(Minus(Minus(income, expenses), savings), investments)))

\* mutant of selectedMonthStats: without a matching row, the first row is taken
selectedMonthStatsFirstRow ==
    LET found == SelectSeq(monthTotals, LAMBDA x : x.month = selectedMonth)
    IN  IF found # <<>> THEN Head(found)
        ELSE IF monthTotals # <<>> THEN Head(monthTotals)
        ELSE MonthRow(selectedMonth, Zero, Zero, Zero, Zero, Zero)

selectedMonthStats ==
    LET found == SelectSeq(monthTotals, LAMBDA x : x.month = selectedMonth)
    IN  IF found # <<>> THEN Head(found)
        ELSE MonthRow(selectedMonth, Zero, Zero, Zero, Zero, Zero)

\* mutant of PlanVariance: the operands exchanged
PlanVarianceTrackedMinusBudget(t) ==
    Minus(monthTrackedTotal(selectedMonth, t), monthBudgetTotal(selectedMonth, t))

\* Plan tab: the variance shown for a kind
PlanVariance(t) ==
    LET budgetTotal  == monthBudgetTotal(selectedMonth, t)
        trackedTotal == monthTrackedTotal(selectedMonth, t)
    IN  Minus(budgetTotal, trackedTotal)

\* Plan tab: the variance shown on a category row
PlanRowVariance(t, cat) ==
    LET b  == getBudget(selectedMonth, t, cat)
        tr == sumForMonthTypeCategory(transactions, selectedMonth, t, cat)
    IN  Minus(b, tr)

\* rows.sort((a, b) => b.total - a.total): a stable sort; a comparator result that
\* is NaN counts as 0
TopBefore(a, b) ==
    LET d == Minus(b.total, a.total) IN Gt(Zero, d)

\* mutant of TopInsert: x is placed before the rows it ties with
RECURSIVE TopInsertBeforeTies(_, _)
TopInsertBeforeTies(s, x) ==
    IF s = <<>> THEN <<x>>
    ELSE IF ~TopBefore(Head(s), x) THEN <<x>> \o s
    ELSE <<Head(s)>> \o TopInsertBeforeTies(Tail(s), x)

RECURSIVE TopInsert(_, _)
TopInsert(s, x) ==
    IF s = <<>> THEN <<x>>
    ELSE IF TopBefore(x, Head(s)) THEN <<x>> \o s
    ELSE <<Head(s)>> \o TopInsert(Tail(s), x)

RECURSIVE TopSort(_)
TopSort(s) ==
    IF s = <<>> THEN <<>>
    ELSE TopInsert(TopSort(SubSeq(s, 1, Len(s) - 1)), s[Len(s)])

TopLimit == 5

\* mutant of TopKeep: every row whose total is not 0 is kept
TopKeepNonZero(r) == r.total # Zero

TopKeep(r) == Gt(r.total, Zero)

topExpenses ==
    LET m    == selectedMonth
        rows == Map(CATEGORIES.Expenses,
                    LAMBDA c : [category |-> c,
                                total |-> sumForMonthTypeCategory(transactions, m,
                                                                  "Expenses", c)])
    IN  Slice0(TopSort(SelectSeq(rows, TopKeep)), TopLimit)

-----------------------------------------------------------------------------
(* Charts *)

\* series.flat()
RECURSIVE Flat(_)
Flat(ss) == IF ss = <<>> THEN <<>> ELSE Head(ss) \o Flat(Tail(ss))

\* Math.max(first, ...rest)
RECURSIVE MathMax(_, _)
MathMax(first, rest) ==
    IF rest = <<>> THEN first ELSE MathMax(Max2(first, Head(rest)), Tail(rest))

\* Number.isFinite(v) ? v : 0
FiniteOrZero(v) == IF IsFinite(v) THEN v ELSE Zero

\* BarChart: const max
BarChartMax(ser) == MathMax(One, Map(Flat(ser), FiniteOrZero))

\* BarChart: const v of a bar; its height is (v / max) * 100 percent
BarValue(v) == FiniteOrZero(v)

\* LineChart: const max
LineChartMax(values) == MathMax(One, Map(values, Abs))

\* Dashboard: series of the "Monthly evolution" chart
MonthlySeries ==
    << Map(monthTotals, LAMBDA x : x.income),
       Map(monthTotals, LAMBDA x : x.expenses),
       Map(monthTotals, LAMBDA x : x.savings),
       Map(monthTotals, LAMBDA x : x.investments) >>

\* Dashboard: series of the "Budget vs Tracked" chart (dashboardBudgetVsTracked)
BudgetVsTrackedSeries ==
    << Map(TxTypes, LAMBDA t : monthBudgetTotal(selectedMonth, t)),
       Map(TxTypes, LAMBDA t : monthTrackedTotal(selectedMonth, t)) >>

-----------------------------------------------------------------------------
(* JSON text.  A file or stored text is empty, malformed, or the JSON text of
   a value: null, or an array of objects.  In the text of an object the amount
   is a number literal Num(n), a literal too large for a double Lit("1e999"),
   null or a string. *)

Lit(str) == [t |-> "lit", s |-> str]

EmptyText == [kind |-> "empty"]

MalformedText == [kind |-> "malformed"]

NullText == [kind |-> "json", j |-> "null", items |-> <<>>]

ArrayText(items) == [kind |-> "json", j |-> "array", items |-> items]

\* JSON.parse of the text of a number, null or string
ParseAmount(tok) ==
    CASE tok.t = "lit" /\ Head(tok.s) = "-" -> NegInf
      [] tok.t = "lit"                      -> PosInf
      [] OTHER                              -> tok

\* mutant of StringifyAmount: every amount is written null
StringifyAmountAsNull(x) == JNull

\* JSON.stringify of a value: a number that is not finite is written null
StringifyAmount(x) == IF x.t \in {"nan", "inf", "-inf"} THEN JNull ELSE x

\* JSON.parse of the text of an object
ParseObject(o) ==
    [k \in DOMAIN o |-> IF k = "amount" THEN ParseAmount(o[k]) ELSE o[k]]

\* JSON.stringify of an object (an undefined property is left out, as in the record)
StringifyObject(o) ==
    [k \in DOMAIN o |-> IF k = "amount" THEN StringifyAmount(o[k]) ELSE o[k]]

\* JSON.stringify(transactions, null, 2)
JSONStringify(txs) == ArrayText(Map(txs, StringifyObject))

\* the JSON text of an object whose values are numbers
ObjectText(map) == [kind |-> "json", j |-> "object", items |-> map]

\* JSON.stringify(budgets)
JSONStringifyBudgets(b) == ObjectText([k \in DOMAIN b |-> StringifyAmount(b[k])])

\* safeParseJSON<BudgetStore>(raw, {}) of a text that holds no array
LoadBudgets(raw) ==
    IF raw.kind = "empty" \/ raw.kind = "malformed" THEN <<>>
    ELSE [k \in DOMAIN raw.items |-> ParseAmount(raw.items[k])]

\* what safeParseJSON returns: arr is FALSE when the value is not an array
Parsed(arr, items) == [arr |-> arr, items |-> items]

safeParseJSON(raw, fallback) ==
    IF raw.kind = "empty" THEN Parsed(TRUE, fallback)
    ELSE IF raw.kind = "malformed" THEN Parsed(TRUE, fallback)
    ELSE IF raw.j = "array"
         THEN Parsed(TRUE, Map(raw.items, ParseObject))
         ELSE Parsed(FALSE, <<>>)

\* the error thrown by the render of App over a value of the transactions state:
\* null.filter in sumByType, undefined.slice in monthKeyFromDate
RenderError(data) ==
    IF ~data.arr THEN "TypeError: null.filter"
    ELSE IF \E i \in 1..Len(data.items) : "date" \notin DOMAIN data.items[i]
         THEN "TypeError: undefined.slice"
         ELSE ""

-----------------------------------------------------------------------------
(* Files the user can pick in the Import control *)

ImportFiles ==
    { EmptyText, MalformedText, NullText, ArrayText(<<>>),
      ArrayText(<< [id |-> "f1", date |-> "2026-01-20", type |-> "Expenses",
                    category |-> "Rent", amount |-> Lit("1e999")],
                   [id |-> "f1", date |-> "2026-02-10", type |-> "Expenses",
                    category |-> "Gifts", amount |-> Lit("-1e999")] >>),
      ArrayText(<< [id |-> "f2", date |-> "2025-12-31", type |-> "Income",
                    category |-> "Salary", amount |-> JStr("7"), details |-> "x"] >>),
      ArrayText(<< [id |-> "f3", type |-> "Income", category |-> "Salary",
                    amount |-> Num(3)] >>) }

SeqsUpTo(S, n) == UNION {[1..k -> S] : k \in 0..n}

\* objects of a snapshot that an earlier session left under TX_STORAGE_KEY
StoredEntries ==
    { [id |-> "s1", date |-> "2026-01-05", type |-> "Expenses",
       category |-> "Rent", amount |-> Num(3)],
      [id |-> "s2", date |-> "2026-01-20", type |-> "Expenses",
       category |-> "Transport", amount |-> Num(-2)],
      [id |-> "s3", date |-> "2026-02-10", type |-> "Expenses",
       category |-> "Rent", amount |-> JNull],
      [id |-> "s4", date |-> "2026-01-05", type |-> "Income",
       category |-> "Salary", amount |-> JStr("7")],
      [id |-> "s5", date |-> "2026-01-05", type |-> "Expenses",
       category |-> "Gifts", amount |-> Num(5)],
      [id |-> "s1", date |-> "2026-02-10", type |-> "Income",
       category |-> "Salary", amount |-> JStr("abc"), details |-> "x"] }

StoredTexts == {ArrayText(items) : items \in SeqsUpTo(StoredEntries, MaxStored)}

\* the budget cells the user edits in the Plan tab
PlanCategories == {"Rent", "Transport"}

\* what the user picks or types in the month field of the Plan tab
PlanMonthTexts == {"2026-01", "2026-02", "2099-01"}

-----------------------------------------------------------------------------
(* The App component *)

TX_STORAGE_KEY == "finance_app_step1_transactions_v1"

BUDGET_STORAGE_KEY == "finance_app_step2_budgets_v1"

\* the storage after the effects of the first render, which run when the
\* render has not thrown
StorageFrom(stored) ==
    LET data == safeParseJSON(stored, <<>>) IN
    IF RenderError(data) = ""
    THEN [k \in {TX_STORAGE_KEY, BUDGET_STORAGE_KEY} |->
            IF k = TX_STORAGE_KEY THEN JSONStringify(data.items)
            ELSE JSONStringifyBudgets(<<>>)]
    ELSE [k \in {TX_STORAGE_KEY, BUDGET_STORAGE_KEY} |->
            IF k = TX_STORAGE_KEY THEN stored ELSE EmptyText]

\* the state after the first render, stored being the text under TX_STORAGE_KEY
\* (the budgets key is absent)
InitFrom(stored) ==
    /\ localStorage = StorageFrom(stored)
    /\ transactions = safeParseJSON(stored, <<>>).items
    /\ budgets = <<>>
    /\ date = Today
    /\ type = "Expenses"
    /\ category = CATEGORIES["Expenses"][1]
    /\ amount = ""
    /\ details = ""
    /\ selectedMonth = Slice0(Today, 7)
    /\ nextId = 0
    /\ crashed = RenderError(safeParseJSON(stored, <<>>))

\* a first visit: nothing is stored
Init == InitFrom(EmptyText) /\ series = <<>> /\ chart = <<>>

\* a later visit
InitStored ==
    /\ \E stored \in StoredTexts : InitFrom(stored)
    /\ series = <<>>
    /\ chart = <<>>

Mounted == crashed = ""

\* the effect on [allMonthsInTx]: an unusable selected month is replaced by the
\* latest month of the collection
MonthEffect(txs, sel) ==
    LET months == AllMonths(txs) IN
    IF Len(months) = 0 THEN sel
    ELSE IF sel = "" \/ Len(sel) # 7 THEN months[Len(months)]
    ELSE sel

\* the effect on [transactions], which runs when the render has not thrown
SaveTransactions(data) ==
    localStorage' =
        IF RenderError(data) = ""
        THEN [localStorage EXCEPT ![TX_STORAGE_KEY] = JSONStringify(data.items)]
        ELSE localStorage

\* the effect on [budgets]
SaveBudgets(b) ==
    localStorage' = [localStorage EXCEPT ![BUDGET_STORAGE_KEY] = JSONStringifyBudgets(b)]

\* setTransactions(txs), the render that follows and its effects
SetTransactions(data) ==
    /\ transactions' = data.items
    /\ crashed' = RenderError(data)
    /\ SaveTransactions(data)
    /\ selectedMonth' = IF RenderError(data) = "" THEN MonthEffect(data.items, selectedMonth)
                        ELSE selectedMonth

SetDate(d) ==
    /\ Mounted
    /\ date' = d
    /\ UNCHANGED <<transactions, budgets, type, category, amount, details,
                   selectedMonth, nextId, crashed, localStorage, chartVars>>

\* setType, and the effect on [type] that resets the category
SetType(t) ==
    /\ Mounted
    /\ type' = t
    /\ category' = IF t = type THEN category ELSE CATEGORIES[t][1]
    /\ UNCHANGED <<transactions, budgets, date, amount, details,
                   selectedMonth, nextId, crashed, localStorage, chartVars>>

\* the category select offers CATEGORIES[type]
SetCategory(c) ==
    /\ Mounted
    /\ c \in Range(CATEGORIES[type])
    /\ category' = c
    /\ UNCHANGED <<transactions, budgets, date, type, amount, details,
                   selectedMonth, nextId, crashed, localStorage, chartVars>>

SetAmount(a) ==
    /\ Mounted
    /\ amount' = a
    /\ UNCHANGED <<transactions, budgets, date, type, category, details,
                   selectedMonth, nextId, crashed, localStorage, chartVars>>

SetDetails(x) ==
    /\ Mounted
    /\ details' = x
    /\ UNCHANGED <<transactions, budgets, date, type, category, amount,
                   selectedMonth, nextId, crashed, localStorage, chartVars>>

\* crypto.randomUUID(): a value never drawn before
FreshId(n) == "tx-" \o ToString(n)

\* mutant of AddRefused: the amount is not looked at
AddRefusedOnEmptyFieldOnly(n) == date = "" \/ type = "" \/ category = ""

\* the guard of addTransaction: TRUE when it returns without adding
AddRefused(n) == date = "" \/ type = "" \/ category = "" \/ ~IsFinite(n)

NewTransaction(n) ==
    LET tx == [id |-> FreshId(nextId), date |-> date, type |-> type,
               category |-> category, amount |-> n]
    IN  IF Trim(details) # "" THEN tx @@ [details |-> Trim(details)] ELSE tx

addTransaction ==
    /\ Mounted
    /\ nextId < MaxIds
    /\ LET n == StringToNumber(amount) IN
       IF AddRefused(n)
       THEN UNCHANGED appVars
       ELSE /\ SetTransactions(Parsed(TRUE, <<NewTransaction(n)>> \o transactions))
            /\ amount' = ""
            /\ details' = ""
            /\ nextId' = nextId + 1
            /\ UNCHANGED <<budgets, date, type, category>>
    /\ UNCHANGED chartVars

\* the Delete button of row i: deleteTransaction(t.id)
SameId(a, b) ==
    IF "id" \in DOMAIN a THEN "id" \in DOMAIN b /\ a.id = b.id
    ELSE "id" \notin DOMAIN b

deleteTransaction(i) ==
    /\ Mounted
    /\ i \in 1..Len(transactions)
    /\ SetTransactions(Parsed(TRUE, SelectSeq(transactions,
                                LAMBDA t : ~SameId(t, transactions[i]))))
    /\ UNCHANGED <<budgets, date, type, category, amount, details, nextId, chartVars>>

\* mutant of clearAll: the budgets are cleared with the transactions
clearAllWithBudgets(confirmed) ==
    /\ Mounted
    /\ IF confirmed THEN SetTransactions(Parsed(TRUE, <<>>)) /\ budgets' = <<>>
       ELSE UNCHANGED <<transactions, crashed, selectedMonth, budgets, localStorage>>
    /\ UNCHANGED <<date, type, category, amount, details, nextId, chartVars>>

\* confirmed is the answer to confirm("Clear all transactions?")
clearAll(confirmed) ==
    /\ Mounted
    /\ IF confirmed THEN SetTransactions(Parsed(TRUE, <<>>))
       ELSE UNCHANGED <<transactions, crashed, selectedMonth, localStorage>>
    /\ UNCHANGED <<budgets, date, type, category, amount, details, nextId, chartVars>>

\* the onChange of the Import control, text being the content of the file
Import(text) ==
    /\ Mounted
    /\ SetTransactions(safeParseJSON(text, <<>>))
    /\ UNCHANGED <<budgets, date, type, category, amount, details, nextId, chartVars>>

SetSelectedMonth(m) ==
    /\ Mounted
    /\ selectedMonth' = m
    /\ UNCHANGED <<transactions, budgets, date, type, category, amount, details,
                   nextId, crashed, localStorage, chartVars>>

\* mutant of setBudget: the value is stored as it is
setBudgetUnchecked(monthKey, t, cat, value) ==
    LET key == BudgetKey(monthKey, t, cat) IN
    /\ Mounted
    /\ budgets' = [k \in DOMAIN budgets \cup {key} |->
                     IF k = key THEN value ELSE budgets[k]]
    /\ SaveBudgets(budgets')
    /\ UNCHANGED <<transactions, date, type, category, amount, details,
                   selectedMonth, nextId, crashed, chartVars>>

\* setBudget(monthKey, t, cat, value)
setBudget(monthKey, t, cat, value) ==
    LET key == BudgetKey(monthKey, t, cat) IN
    /\ Mounted
    /\ budgets' = [k \in DOMAIN budgets \cup {key} |->
                     IF k = key THEN (IF IsFinite(value) THEN value ELSE Zero)
                     ELSE budgets[k]]
    /\ SaveBudgets(budgets')
    /\ UNCHANGED <<transactions, date, type, category, amount, details,
                   selectedMonth, nextId, crashed, chartVars>>

\* the onChange of a budget cell of the Plan tab
EditBudget(t, cat, text) ==
    /\ cat \in Range(CATEGORIES[t])
    /\ \/ BudgetKey(selectedMonth, t, cat) \in DOMAIN budgets
       \/ Cardinality(DOMAIN budgets) < MaxBudgetKeys
    /\ setBudget(selectedMonth, t, cat, StringToNumber(text))

\* rows of the transactions table that hold a Delete button
MaxRows == MaxIds + MaxStored

Next ==
    \/ \E d \in FormDates : SetDate(d)
    \/ \E t \in FormTypes : SetType(t)
    \/ \E c \in FormCategories : SetCategory(c)
    \/ \E a \in AmountTexts : SetAmount(a)
    \/ \E x \in DetailsTexts : SetDetails(x)
    \/ addTransaction
    \/ \E i \in 1..MaxRows : deleteTransaction(i)
    \/ \E ok \in BOOLEAN : clearAll(ok)
    \/ \E text \in ImportFiles : Import(text)
    \/ \E m \in MonthTexts : SetSelectedMonth(m)

Spec == Init /\ [][Next]_vars

\* The Tracking and Plan tabs together, from a first visit
NextRoots ==
    \/ \E a \in AmountTexts : SetAmount(a)
    \/ addTransaction
    \/ \E i \in 1..MaxRows : deleteTransaction(i)
    \/ \E ok \in BOOLEAN : clearAll(ok)
    \/ \E text \in ImportFiles : Import(text)
    \/ \E m \in PlanMonthTexts : SetSelectedMonth(m)
    \/ \E c \in PlanCategories, text \in BudgetTexts : EditBudget("Expenses", c, text)

SpecRoots == Init /\ [][NextRoots]_vars

\* the page is loaded again: the first render over what the storage holds, and
\* its effects
Reload ==
    LET data == safeParseJSON(localStorage[TX_STORAGE_KEY], <<>>)
        b    == LoadBudgets(localStorage[BUDGET_STORAGE_KEY])
    IN  /\ transactions' = data.items
        /\ budgets' = b
        /\ date' = Today
        /\ type' = "Expenses"
        /\ category' = CATEGORIES["Expenses"][1]
        /\ amount' = ""
        /\ details' = ""
        /\ selectedMonth' = Slice0(Today, 7)
        /\ crashed' = RenderError(data)
        /\ localStorage' =
               IF RenderError(data) = ""
               THEN [k \in {TX_STORAGE_KEY, BUDGET_STORAGE_KEY} |->
                       IF k = TX_STORAGE_KEY THEN JSONStringify(data.items)
                       ELSE JSONStringifyBudgets(b)]
               ELSE localStorage
        /\ UNCHANGED <<nextId, chartVars>>

\* The two tabs and the reloads of the page, from a first visit
NextStore ==
    \/ NextRoots
    \/ Reload

SpecStore == Init /\ [][NextStore]_vars

\* The Plan tab over a stored collection
NextPlan ==
    \/ \E m \in PlanMonthTexts : SetSelectedMonth(m)
    \/ \E c \in PlanCategories, text \in BudgetTexts : EditBudget("Expenses", c, text)
    \/ \E i \in 1..MaxRows : deleteTransaction(i)
    \/ \E ok \in BOOLEAN : clearAll(ok)
    \/ \E text \in ImportFiles : Import(text)

SpecPlan == InitStored /\ [][NextPlan]_vars

-----------------------------------------------------------------------------
(* The Dashboard over a stored collection that holds at most one expense per
   category, all in the month of Today *)

TopAmounts == {Num(1), Num(2), Num(-1)}

ExpenseRows == 1..Len(CATEGORIES.Expenses)

TopEntry(i, amt) ==
    [id |-> "t" \o ToString(i), date |-> Today, type |-> "Expenses",
     category |-> CATEGORIES.Expenses[i], amount |-> amt]

TopText(amts) ==
    ArrayText(Map(SelectSeq([i \in ExpenseRows |-> i], LAMBDA i : i \in DOMAIN amts),
                  LAMBDA i : TopEntry(i, amts[i])))

InitTop ==
    /\ \E S \in SUBSET ExpenseRows : \E amts \in [S -> TopAmounts] :
           InitFrom(TopText(amts))
    /\ series = <<>>
    /\ chart = <<>>

TopMonthTexts == {"2026-01", "2026-02"}

NextTop ==
    \/ \E m \in TopMonthTexts : SetSelectedMonth(m)
    \/ \E i \in ExpenseRows : deleteTransaction(i)
    \/ \E ok \in BOOLEAN : clearAll(ok)

SpecTop == InitTop /\ [][NextTop]_vars

-----------------------------------------------------------------------------
(* The chart components over the series handed to them *)

MaxSeries == 2

MaxPoints == 2

ChartValues == {Num(0), Num(-2), Num(3), NaN, PosInf}

ChartInputs == SeqsUpTo(SeqsUpTo(ChartValues, MaxPoints), MaxSeries)

InitChart ==
    /\ InitFrom(EmptyText)
    /\ series \in ChartInputs
    /\ chart = <<>>

\* <BarChart series={series} />
RenderBarChart ==
    /\ chart' = [kind |-> "bar", of |-> series, max |-> BarChartMax(series)]
    /\ UNCHANGED <<appVars, series>>

\* <LineChart values={series[i]} />
RenderLineChart(i) ==
    /\ i \in 1..Len(series)
    /\ chart' = [kind |-> "line", of |-> <<series[i]>>, max |-> LineChartMax(series[i])]
    /\ UNCHANGED <<appVars, series>>

\* a render of the parent with other series
NewSeries(ser) ==
    /\ series' = ser
    /\ chart' = <<>>
    /\ UNCHANGED appVars

NextChart ==
    \/ RenderBarChart
    \/ \E i \in 1..MaxSeries : RenderLineChart(i)
    \/ \E ser \in ChartInputs : NewSeries(ser)

SpecChart == InitChart /\ [][NextChart]_vars

-----------------------------------------------------------------------------
(* The aggregates over a stored collection that holds entries whose category
   is not in the list of their kind *)

MaxCat == 3

\* "Gifts" is in no list; "Salary" is in the list of Income only
CatEntries ==
    { [id |-> "c1", date |-> "2026-01-05", type |-> "Expenses",
       category |-> "Rent", amount |-> Num(3)],
      [id |-> "c2", date |-> "2026-02-10", type |-> "Expenses",
       category |-> "Gifts", amount |-> Num(5)],
      [id |-> "c3", date |-> "2026-01-20", type |-> "Expenses",
       category |-> "Gifts", amount |-> Num(0)],
      [id |-> "c4", date |-> "2026-01-20", type |-> "Expenses",
       category |-> "Salary", amount |-> Num(-5)],
      [id |-> "c5", date |-> "2026-02-10", type |-> "Income",
       category |-> "Salary", amount |-> Num(7)] }

InitCat ==
    /\ \E items \in SeqsUpTo(CatEntries, MaxCat) : InitFrom(ArrayText(items))
    /\ series = <<>>
    /\ chart = <<>>

NextCat ==
    \/ \E m \in TopMonthTexts : SetSelectedMonth(m)
    \/ \E i \in 1..MaxCat : deleteTransaction(i)
    \/ \E ok \in BOOLEAN : clearAll(ok)

SpecCat == InitCat /\ [][NextCat]_vars

-----------------------------------------------------------------------------
(* Properties *)

Kinds == Range(TxTypes)

\* the entries of kind k, and their number
OfKind(txs, k) == SelectSeq(txs, LAMBDA t : HasValue(t, "type", k))

\* an amount as the specification counts it: its numeric value when that is a
\* finite number, else 0
CountedAmount(t) ==
    LET n == IF "amount" \in DOMAIN t THEN ToNumber(t.amount) ELSE NaN
    IN  IF IsFinite(n) THEN n.v ELSE 0

RECURSIVE IntSum(_)
IntSum(s) == IF s = <<>> THEN 0 ELSE Head(s) + IntSum(Tail(s))

\* C1: for every kind k, sumByType(transactions, k) is the sum, over the entries
\* of kind k, of the amount, an amount that is not numeric or not finite
\* counting as 0 (so the sum of no entry is 0).
C1_SumByTypeCountsNonFiniteAsZero ==
    \A k \in Kinds :
        sumByType(transactions, k) = Num(IntSum(Map(OfKind(transactions, k), CountedAmount)))

\* C2: in the Plan tab the variance of a kind for the selected month is
\* monthBudgetTotal - monthTrackedTotal, positive when tracked is below budget
\* and negative when above, and it is the sum of the variances shown on the
\* rows of the kind's categories.
C2_PlanVarianceIsBudgetMinusTracked ==
    Mounted =>
        \A t \in Kinds :
            LET b  == monthBudgetTotal(selectedMonth, t)
                tr == monthTrackedTotal(selectedMonth, t)
                v  == PlanVariance(t)
            IN  /\ v = Minus(b, tr)
                /\ Gt(b, tr) => Gt(v, Zero)
                /\ Gt(tr, b) => Gt(Zero, v)
                /\ IsFinite(tr) => Plus(v, tr) = b
                /\ v = Reduce(Map(CATEGORIES[t], LAMBDA cat : PlanRowVariance(t, cat)),
                              Zero)

\* two budget cells of 4 against 3 and -2 tracked: a variance of 7
C2_Witness ==
    /\ Mounted
    /\ getBudget(selectedMonth, "Expenses", "Rent") = Num(4)
    /\ getBudget(selectedMonth, "Expenses", "Transport") = Num(4)
    /\ monthTrackedTotal(selectedMonth, "Expenses") = Num(1)
    /\ PlanVariance("Expenses") = Num(7)

\* a precedes b in lexicographic order: at the first place where they differ a
\* has the smaller character, or a is a proper prefix of b
LexLess(a, b) ==
    \E i \in 1..Len(b) :
        /\ i <= Len(a) + 1
        /\ SubSeq(a, 1, i - 1) = SubSeq(b, 1, i - 1)
        /\ i <= Len(a) => CharCode(SubSeq(a, i, i)) < CharCode(SubSeq(b, i, i))

\* the month key of an entry: the first 7 characters of its date
FirstSeven(d) == IF Len(d) <= 7 THEN d ELSE SubSeq(d, 1, 7)

\* C3: after any sequence of add, delete, clear and import, allMonthsInTx is in
\* ascending lexicographic order without duplicates and holds exactly the month
\* keys of the entries now in the collection.
C3_MonthsSortedDistinctExact ==
    Mounted =>
        /\ \A i \in 1..(Len(allMonthsInTx) - 1) :
               LexLess(allMonthsInTx[i], allMonthsInTx[i + 1])
        /\ Range(allMonthsInTx) = {FirstSeven(t.date) : t \in Range(transactions)}

\* three entries in two months, the newest one in the later month
C3_Witness ==
    /\ Mounted
    /\ Len(transactions) = 3
    /\ allMonthsInTx = <<"2026-01", "2026-02">>
    /\ FirstSeven(transactions[1].date) = "2026-02"
    /\ FirstSeven(transactions[2].date) = "2026-01"

\* the tracked total of an Expenses category for the selected month
ExpenseTotal(c) == sumForMonthTypeCategory(transactions, selectedMonth, "Expenses", c)

\* the position of a category in CATEGORIES.Expenses
ExpenseIndex(c) == CHOOSE i \in ExpenseRows : CATEGORIES.Expenses[i] = c

Listed(rows) == {rows[i].category : i \in 1..Len(rows)}

\* C4: topExpenses has at most 5 rows, each an Expenses category with its total
\* for the selected month; the totals are in descending order, rows with equal
\* totals are in the order of CATEGORIES, and no row has a total of 0.
C4_TopExpensesShape ==
    Mounted =>
        LET rows == topExpenses
            n    == Len(rows)
            at   == [i \in 1..n |-> ExpenseIndex(rows[i].category)]
        IN  /\ n <= 5
            /\ \A i \in 1..n :
                   /\ rows[i].category \in Range(CATEGORIES.Expenses)
                   /\ rows[i].total = ExpenseTotal(rows[i].category)
                   /\ rows[i].total # Zero
            /\ \A i \in 1..(n - 1) :
                   /\ ~Gt(rows[i + 1].total, rows[i].total)
                   /\ rows[i].total = rows[i + 1].total => at[i] < at[i + 1]

\* more than 5 categories have a positive total and two listed rows tie
C4_Witness ==
    /\ Mounted
    /\ Cardinality({c \in Range(CATEGORIES.Expenses) : Gt(ExpenseTotal(c), Zero)}) > 5
    /\ LET rows == topExpenses
       IN  Len(rows) = 5 /\ rows[1].total = Num(2) /\ rows[4].total = rows[5].total

\* C5 as claimed: every category whose total for the selected month is not 0
\* is a candidate, so when at most 5 categories have a non-zero total the list
\* holds exactly those categories.
C5_NonZeroTotalsListed ==
    Mounted =>
        LET nonZero == {c \in Range(CATEGORIES.Expenses) : ExpenseTotal(c) # Zero}
        IN  Cardinality(nonZero) <= 5 => Listed(topExpenses) = nonZero

\* C5 as amended: only a category whose total is greater than 0 is listed, and
\* when at most 5 categories have such a total the list holds exactly those.
C5_PositiveTotalsListed ==
    Mounted =>
        LET positive == {c \in Range(CATEGORIES.Expenses) : Gt(ExpenseTotal(c), Zero)}
            listed   == Listed(topExpenses)
        IN  /\ listed \subseteq positive
            /\ Cardinality(positive) <= 5 => listed = positive

\* a category with a negative total beside three listed ones
C5_Witness ==
    /\ Mounted
    /\ \E c \in Range(CATEGORIES.Expenses) : Gt(Zero, ExpenseTotal(c))
    /\ Len(topExpenses) = 3

ChartValuesOf(c) == Range(Flat(c.of))

Leq(a, b) == a.t = "num" /\ b.t = "num" /\ a.v <= b.v

\* C6: the scale maximum of a rendered chart, BarChart or LineChart, is a
\* number not below 1, and it is exactly 1 when the chart has no value or all
\* of its values are 0 or non-finite.
C6_ScaleMaxAtLeastOne ==
    chart # <<>> =>
        /\ Leq(One, chart.max)
        /\ (\A v \in ChartValuesOf(chart) : v = Zero \/ ~IsFinite(v)) => chart.max = One

\* C7: the scale maximum of a rendered BarChart is max(1, largest absolute
\* value of the drawn values), so every drawn value v has -1 <= v / max <= 1.
C7_BarMaxIsLargestAbsoluteValue ==
    (chart # <<>> /\ chart.kind = "bar") =>
        LET drawn == Map(Flat(chart.of), BarValue)
        IN  /\ chart.max = MathMax(One, Map(drawn, Abs))
            /\ \A v \in Range(drawn) : Leq(Abs(v), chart.max)

\* the text written by the Export button, read back by the Import control
ExportedThenImported == safeParseJSON(JSONStringify(transactions), <<>>)

InfiniteAmount(t) == "amount" \in DOMAIN t /\ t.amount.t \in {"inf", "-inf"}

ExpectedAmount(text) ==
    CASE text = ""    -> Num(0)
      [] text = "3"   -> Num(3)
      [] text = "abc" -> NaN

\* C9: addTransaction with an empty date, kind or category, or an amount text
\* that is not a finite number, changes neither the collection, nor the
\* budgets, nor the form; otherwise the collection gains, in front, exactly one
\* entry with the date, kind, category and number of the form, the entries it
\* held stay as they are in the same order, and the budgets are unchanged.
C9_AddRefusedOrInsertsOne ==
    [][addTransaction =>
         IF date = "" \/ type = "" \/ category = "" \/ ~IsFinite(ExpectedAmount(amount))
         THEN UNCHANGED <<transactions, budgets, date, type, category, amount, details>>
         ELSE /\ Len(transactions') = Len(transactions) + 1
              /\ Tail(transactions') = transactions
              /\ Head(transactions').date = date
              /\ Head(transactions').type = type
              /\ Head(transactions').category = category
              /\ Head(transactions').amount = ExpectedAmount(amount)
              /\ budgets' = budgets]_vars

\* an entry was added in front of an imported one, and the form holds "abc"
C9_Witness ==
    /\ Mounted
    /\ Len(transactions) = 2
    /\ transactions[1].id = FreshId(0)
    /\ transactions[1].amount = Num(3)
    /\ transactions[2].id = "f2"
    /\ amount = "abc"

HasEntryIn(m) ==
    \E i \in 1..Len(transactions) : monthKeyFromDate(transactions[i].date) = m

\* C10: selectedMonthStats is the row of monthTotals for the selected month
\* when the collection has an entry in that month, and otherwise the row of
\* that month with income, expenses, savings, investments and net 0; in both
\* cases its four kind fields are monthTrackedTotal of the month and kind.
C10_SelectedMonthStatsRowOrZero ==
    Mounted =>
        LET st == selectedMonthStats
            m  == selectedMonth
        IN  /\ st.month = m
            /\ HasEntryIn(m) => \E i \in 1..Len(monthTotals) : monthTotals[i] = st
            /\ ~HasEntryIn(m) => st = MonthRow(m, Zero, Zero, Zero, Zero, Zero)
            /\ st.income = monthTrackedTotal(m, "Income")
            /\ st.expenses = monthTrackedTotal(m, "Expenses")
            /\ st.savings = monthTrackedTotal(m, "Savings")
            /\ st.investments = monthTrackedTotal(m, "Investments")

\* month 2099-01 is selected over a collection with entries in other months
C10_Witness ==
    /\ Mounted
    /\ selectedMonth = "2099-01"
    /\ Len(transactions) > 0
    /\ ~HasEntryIn(selectedMonth)
    /\ selectedMonthStats.net = Zero


\* C11: monthTotals has one row per month of allMonthsInTx, in the same
\* (ascending) order; in each row income, expenses, savings and investments
\* are monthTrackedTotal of the row's month over the current collection, and
\* net is income - expenses - savings - investments.
C11_MonthTotalsRows ==
    Mounted =>
        LET rows   == monthTotals
            months == allMonthsInTx
        IN  /\ Len(rows) = Len(months)
            /\ \A i \in 1..Len(rows) :
                   LET r == rows[i] IN
                   /\ r.month = months[i]
                   /\ r.income = monthTrackedTotal(months[i], "Income")
                   /\ r.expenses = monthTrackedTotal(months[i], "Expenses")
                   /\ r.savings = monthTrackedTotal(months[i], "Savings")
                   /\ r.investments = monthTrackedTotal(months[i], "Investments")
                   /\ r.net = Minus(Minus(Minus(r.income, r.expenses), r.savings),
                                    r.investments)
            /\ \A i \in 1..(Len(rows) - 1) : LexLess(rows[i].month, rows[i + 1].month)

\* an income of 7 in 2025-12 and an added expense of 3 in 2026-01: two rows,
\* of net 7 and -3
C11_Witness ==
    /\ Mounted
    /\ Len(monthTotals) = 2
    /\ monthTotals[1].net = Num(7)
    /\ monthTotals[2].net = Num(-3)
    /\ transactions[1].id = FreshId(0)


\* what the texts of BudgetTexts are as numbers
ExpectedBudget(text) ==
    CASE text = "4" -> Num(4)
      [] text = "x" -> NaN

\* the cells of the Plan tab, over the months the user can select
PlanTriples == PlanMonthTexts \X {"Expenses"} \X PlanCategories

\* the step edits the cell of triple tr with the text
EditsCell(tr, text) == tr[1] = selectedMonth /\ EditBudget(tr[2], tr[3], text)

\* C12: getBudget is 0 for every triple at the start; a step that edits a cell
\* makes getBudget of its triple the number typed, or 0 when the text is not a
\* finite number; every other step leaves getBudget of the triple as it was,
\* and no key ever leaves the map.
C12_GetBudgetIsLastSetBudget ==
    /\ \A tr \in PlanTriples : getBudget(tr[1], tr[2], tr[3]) = Zero
    /\ [][/\ DOMAIN budgets \subseteq DOMAIN budgets'
          /\ \A tr \in PlanTriples :
                 /\ \A text \in BudgetTexts :
                        EditsCell(tr, text) =>
                            getBudget(tr[1], tr[2], tr[3])' =
                                IF IsFinite(ExpectedBudget(text))
                                THEN ExpectedBudget(text) ELSE Zero
                 /\ (\A text \in BudgetTexts : ~EditsCell(tr, text)) =>
                        getBudget(tr[1], tr[2], tr[3])' = getBudget(tr[1], tr[2], tr[3])]_vars

\* one cell holds 4, another was edited to a text that is not a number and
\* holds 0, and a third was never edited
C12_Witness ==
    /\ Mounted
    /\ \E a, b \in DOMAIN budgets : budgets[a] = Num(4) /\ budgets[b] = Zero
    /\ \E tr \in PlanTriples :
           /\ BudgetKey(tr[1], tr[2], tr[3]) \notin DOMAIN budgets
           /\ getBudget(tr[1], tr[2], tr[3]) = Zero


\* C13: an import makes the collection the list of the records parsed from the
\* file when its text is a JSON array, and the empty list otherwise; nothing of
\* the former collection remains, and the render that follows, with its
\* aggregations, throws no error.
C13_ImportReplacesWithoutError ==
    [][\A text \in ImportFiles :
           Import(text) =>
               /\ transactions' = IF text.kind = "json" /\ text.j = "array"
                                  THEN Map(text.items, ParseObject)
                                  ELSE <<>>
               /\ crashed' = ""]_vars


\* the category of entry t is in the fixed list of kind k
InList(t, k) == "category" \in DOMAIN t /\ t.category \in Range(CATEGORIES[k])

\* the entries of kind k whose category is not in the list of k, and what
\* they add to sumByType
OffList(k) == SelectSeq(OfKind(transactions, k), LAMBDA t : ~InList(t, k))

OffListSum(k) == Reduce(Map(OffList(k), AmountTerm), Zero)

\* the collection without the entries whose category is not in their kind's list
OnListOnly ==
    SelectSeq(transactions,
              LAMBDA t : \E k \in Kinds : HasValue(t, "type", k) /\ InList(t, k))

\* the sum over allMonthsInTx of monthTrackedTotal(m, k)
TrackedOverMonths(k) ==
    Reduce(Map(allMonthsInTx, LAMBDA m : monthTrackedTotal(m, k)), Zero)

\* C14 as stated: the monthly tracked totals of a kind add up to sumByType
\* exactly when every entry of the kind has a category of the kind's list.
C14_EqualExactlyWhenAllListed ==
    Mounted =>
        \A k \in Kinds :
            (TrackedOverMonths(k) = sumByType(transactions, k)) <=> (OffList(k) = <<>>)

\* C14: an entry whose category is not in its kind's list counts in sumByType
\* and nowhere else: monthTrackedTotal is what it is without such entries,
\* topExpenses lists categories of the list only, and sumByType(k) is the sum
\* over the months of monthTrackedTotal(m, k) plus the amounts of those
\* entries; the two are equal when the kind has no such entry and, amounts
\* being finite, exactly when the amounts of those entries add up to 0.
C14_OffListCountsOnlyInSumByType ==
    Mounted =>
        \A k \in Kinds :
            LET tracked == TrackedOverMonths(k)
                total   == sumByType(transactions, k)
            IN  /\ total = Plus(tracked, OffListSum(k))
                /\ OffList(k) = <<>> => tracked = total
                /\ IsFinite(total) => (tracked = total <=> OffListSum(k) = Zero)
                /\ \A m \in Range(allMonthsInTx) \cup {selectedMonth} :
                       monthTrackedTotal(m, k) =
                           Reduce(Map(CATEGORIES[k],
                                      LAMBDA cat : sumForMonthTypeCategory(OnListOnly, m, k, cat)),
                                  Zero)
                /\ k = "Expenses" => Listed(topExpenses) \subseteq Range(CATEGORIES[k])

\* Rent 3 and Gifts 5: sumByType counts 8, the months' tracked totals 3
C14_Witness ==
    /\ Mounted
    /\ Len(OffList("Expenses")) = 1
    /\ OffListSum("Expenses") = Num(5)
    /\ sumByType(transactions, "Expenses") = Num(8)
    /\ TrackedOverMonths("Expenses") = Num(3)


\* s without its i-th element
RemoveAt(s, i) == SubSeq(s, 1, i - 1) \o SubSeq(s, i + 1, Len(s))

\* C15: the entries of the collection always have pairwise distinct ids, and
\* the Delete button of a row removes that row and no other: the other rows
\* stay, unchanged and in the same order.
C15_DistinctIdsDeleteRemovesOne ==
    /\ [](Mounted =>
            \A i, j \in 1..Len(transactions) :
                i # j => ~SameId(transactions[i], transactions[j]))
    /\ [][\A i \in 1..MaxRows :
              deleteTransaction(i) => transactions' = RemoveAt(transactions, i)]_vars


\* every (month, kind, category) over the months of the Plan tab
AllTriples ==
    UNION {PlanMonthTexts \X {k} \X Range(CATEGORIES[k]) : k \in Kinds}

\* C16: add, delete, clear and import leave the budgets as they are; the edit
\* of a budget cell leaves the transactions as they are and leaves getBudget
\* of every other triple as it was; two distinct triples never have the same
\* key.
C16_RootCollectionsIndependent ==
    /\ [](Cardinality({BudgetKey(a[1], a[2], a[3]) : a \in AllTriples})
              = Cardinality(AllTriples))
    /\ [][/\ ( \/ addTransaction
               \/ \E i \in 1..MaxRows : deleteTransaction(i)
               \/ \E ok \in BOOLEAN : clearAll(ok)
               \/ \E text \in ImportFiles : Import(text) ) => budgets' = budgets
          /\ \A tr \in PlanTriples, text \in BudgetTexts :
                 EditsCell(tr, text) =>
                     /\ transactions' = transactions
                     /\ \A o \in AllTriples \ {tr} :
                            getBudget(o[1], o[2], o[3])' = getBudget(o[1], o[2], o[3])]_vars

\* the Rent budget of 2026-01 is 4, and the Rent expense added in 2026-01 has
\* been removed
C16_Witness ==
    /\ Mounted
    /\ nextId = 1
    /\ transactions = <<>>
    /\ getBudget("2026-01", "Expenses", "Rent") = Num(4)
    /\ BudgetKey("2026-01", "Expenses", "Rent") \in DOMAIN budgets


\* C17: addTransaction with the amount field empty or blank, as it is at the
\* start and after every add, adds no entry and changes nothing in the form.
C17_EmptyAmountRefused ==
    [][(addTransaction /\ Trim(amount) = "") =>
           UNCHANGED <<transactions, budgets, date, type, category, amount, details>>]_vars


\* the step changes the Entry collection through one of its four operations
ChangesCollection ==
    \/ addTransaction /\ transactions' # transactions
    \/ \E i \in 1..MaxRows : deleteTransaction(i)
    \/ clearAll(TRUE)
    \/ \E text \in ImportFiles : Import(text)

\* what a reload reads from the storage
ReloadedTransactions == safeParseJSON(localStorage[TX_STORAGE_KEY], <<>>)

ReloadedBudgets == LoadBudgets(localStorage[BUDGET_STORAGE_KEY])

\* C18: every add, delete, clear and import is followed by the save of the
\* whole collection under TX_STORAGE_KEY, every budget edit by the save of
\* the whole map under BUDGET_STORAGE_KEY; and, the save effects having run,
\* a reload reads from the storage the collection and the map of the memory.
C18_SavedAndRestoredByReload ==
    /\ [][/\ ChangesCollection =>
                 localStorage'[TX_STORAGE_KEY] = JSONStringify(transactions')
          /\ \A tr \in PlanTriples, text \in BudgetTexts :
                 EditsCell(tr, text) =>
                     localStorage'[BUDGET_STORAGE_KEY] = JSONStringifyBudgets(budgets')]_vars
    /\ [](Mounted =>
            /\ ReloadedTransactions = Parsed(TRUE, transactions)
            /\ ReloadedBudgets = budgets)

====
